---------------------------- MODULE Spec2Model ----------------------------
(***************************************************************************)
(* Model of the two Streamlit pages of the repository:                     *)
(*   pages/(1) Image Resizer.py  - percentage resize of uploaded images,   *)
(*                                 packaged into a ZIP archive;            *)
(*   pages/(2) PDF Resizer.py    - PDF compression, in the remote          *)
(*                                 (iLovePDF) variant and in the pypdf     *)
(*                                 variant that recompresses the embedded  *)
(*                                 images of every page.                   *)
(* Strings are sequences of one-character strings, so that split, strip,   *)
(* replace and lower act on characters as they do in Python.  Python       *)
(* floats are IEEE-754 binary64 values, kept as a 53-bit mantissa (most    *)
(* significant bit first) and a binary exponent.                           *)
(***************************************************************************)
EXTENDS Integers, Sequences, FiniteSets, TLC

VARIABLES
    \* ---- a call of one of the pure helpers of the pages
    call,            \* [fn, ...arguments]
    ret,             \* <<>> before the call returns, <<value>> after
    \* ---- pages/(1) Image Resizer.py, one run of the script
    uploaded_files,  \* st.file_uploader(...): sequence of uploaded images
    pct,             \* st.select_slider(...)
    pc,              \* "idle" | "loop" | "done"
    idx,             \* position of the for loop over uploaded_files
    zf,              \* entries written to the ZipFile, in order
    save_calls,      \* (format, mode) of every image handed to Image.save
    error_count,
    zip_bytes,       \* <<>> for None, or <<entries of the archive read back>>
    processed_msg,   \* <<>>, or <<the count shown by st.success>>
    \* ---- pages/(2) PDF Resizer.py, image loop of one document (pypdf)
    n_pages,         \* len(writer.pages)
    cfg,             \* [quality, downscale, max_side] in force
    d_pc,            \* "pages" | "written"
    p_i,             \* page position
    k_i,             \* image position within the page
    stats,           \* [images_total, images_replaced, images_downscaled]
    img_log,         \* the iteration just run: <<[img, dd, dr, out]>>, the image
                     \* met, what it added to images_downscaled and to
                     \* images_replaced, and the image the document now embeds
    \* ---- pages/(2) PDF Resizer.py, the page across reruns (pypdf)
    results,         \* st.session_state.results : file_id -> entry
    last_params,     \* st.session_state.last_params
    cur_params,
    pdf_files,       \* the uploader's files in this rerun
    run,             \* st.button("Compress PDF(s)")
    f_idx,
    s_pc,            \* "start" | "loop" | "rendered"
    st_errors,       \* names reported with st.error in this rerun
    info_cleared,    \* "Settings changed" was shown in this rerun
    visited,         \* names the for loop has reached in this rerun
    \* ---- pages/(2) PDF Resizer.py, remote variant
    r_files,
    r_idx,
    r_pc,            \* "loop" | "done" | "crashed"
    compressed_paths,
    r_visited

fnVars  == <<call, ret>>
imgVars == <<uploaded_files, pct, pc, idx, zf, save_calls, error_count,
             zip_bytes, processed_msg>>
docVars == <<n_pages, cfg, d_pc, p_i, k_i, stats, img_log>>
sesVars == <<results, last_params, cur_params, pdf_files, run, f_idx, s_pc,
             st_errors, info_cleared, visited>>
remVars == <<r_files, r_idx, r_pc, compressed_paths, r_visited>>
vars    == <<fnVars, imgVars, docVars, sesVars, remVars>>

Max(a, b) == IF a >= b THEN a ELSE b

-----------------------------------------------------------------------------
(* Python str operations on sequences of characters                        *)

UpperChars == <<"A","B","C","D","E","F","G","H","I","J","K","L","M",
                "N","O","P","Q","R","S","T","U","V","W","X","Y","Z">>
LowerChars == <<"a","b","c","d","e","f","g","h","i","j","k","l","m",
                "n","o","p","q","r","s","t","u","v","w","x","y","z">>

\* the characters str.strip() removes
Whitespace == {" ", "\t", "\n", "\r", "\f"}

LowerChar(c) ==
    IF \E i \in 1..Len(UpperChars) : UpperChars[i] = c
    THEN LowerChars[CHOOSE i \in 1..Len(UpperChars) : UpperChars[i] = c]
    ELSE c

\* s.lower()
StrLower(s) == [i \in 1..Len(s) |-> LowerChar(s[i])]

\* c in s
Contains(s, c) == \E i \in 1..Len(s) : s[i] = c

\* s.replace(old, new) for one-character old and new
Replace(s, old, new) == [i \in 1..Len(s) |-> IF s[i] = old THEN new ELSE s[i]]

\* s.strip()
RECURSIVE LStrip(_)
LStrip(s) ==
    IF s # <<>> /\ Head(s) \in Whitespace THEN LStrip(Tail(s)) ELSE s

RECURSIVE RStrip(_)
RStrip(s) ==
    IF s # <<>> /\ s[Len(s)] \in Whitespace
    THEN RStrip(SubSeq(s, 1, Len(s) - 1)) ELSE s

Strip(s) == RStrip(LStrip(s))

\* s.split(sep): the list of the pieces between the separators
RECURSIVE SplitAcc(_, _, _)
SplitAcc(s, sep, cur) ==
    IF s = <<>> THEN <<cur>>
    ELSE IF Head(s) = sep
         THEN <<cur>> \o SplitAcc(Tail(s), sep, <<>>)
         ELSE SplitAcc(Tail(s), sep, Append(cur, Head(s)))

Split(s, sep) == SplitAcc(s, sep, <<>>)

\* s.rsplit(sep, 1): at most one split, at the rightmost separator
RECURSIVE RSplit1Acc(_, _, _)
RSplit1Acc(s, sep, tail) ==
    IF s = <<>> THEN <<tail>>
    ELSE IF s[Len(s)] = sep
         THEN <<SubSeq(s, 1, Len(s) - 1), tail>>
         ELSE RSplit1Acc(SubSeq(s, 1, Len(s) - 1), sep, <<s[Len(s)]>> \o tail)

RSplit1(s, sep) == RSplit1Acc(s, sep, <<>>)

\* str(n) of a non-negative integer, as the f-string writes it
DigitChars == <<"0","1","2","3","4","5","6","7","8","9">>

RECURSIVE IntToStr(_)
IntToStr(n) ==
    IF n < 10 THEN <<DigitChars[n + 1]>>
    ELSE IntToStr(n \div 10) \o <<DigitChars[(n % 10) + 1]>>

-----------------------------------------------------------------------------
(* Python float arithmetic (IEEE-754 binary64, round to nearest even) on   *)
(* positive values.  A float is [m, e]: m is the mantissa, MantBits bits   *)
(* with the most significant first, and the value is m * 2^e.  Quotients   *)
(* and products are formed exactly, eight bits at a time, and rounded once.*)

MantBits == 53

RECURSIVE IntBits(_)
IntBits(n) == IF n = 0 THEN <<>> ELSE IntBits(n \div 2) \o <<n % 2>>

RECURSIVE BitsToInt(_)
BitsToInt(b) ==
    IF b = <<>> THEN 0 ELSE 2 * BitsToInt(SubSeq(b, 1, Len(b) - 1)) + b[Len(b)]

Zeros(n) == [i \in 1..n |-> 0]

\* the eight bits of d, 0 <= d < 256
ByteBits(d) == [i \in 1..8 |-> (d \div (2 ^ (8 - i))) % 2]

\* b without its leading zero bits
StripZeros(b) ==
    LET ones == {i \in 1..Len(b) : b[i] = 1}
    IN  IF ones = {} THEN <<>>
        ELSE SubSeq(b, CHOOSE i \in ones : \A j \in ones : i <= j, Len(b))

\* b + 1 on a bit string; one bit longer when every bit was set
IncBits(b) ==
    LET zeros == {i \in 1..Len(b) : b[i] = 0}
    IN  IF zeros = {} THEN <<1>> \o Zeros(Len(b))
        ELSE LET z == CHOOSE i \in zeros : \A j \in zeros : j <= i
             IN  [i \in 1..Len(b) |-> IF i < z THEN b[i] ELSE IF i = z THEN 1 ELSE 0]

\* round the exact value (bits, sticky) * 2^e to MantBits bits, ties to even;
\* bits starts with a 1; sticky tells that a non-zero part below the last bit
\* of bits was dropped
RoundBits(bits, sticky, e) ==
    IF Len(bits) <= MantBits
    THEN [m |-> bits \o Zeros(MantBits - Len(bits)),
          e |-> e - (MantBits - Len(bits))]
    ELSE LET top   == SubSeq(bits, 1, MantBits)
             rest  == SubSeq(bits, MantBits + 1, Len(bits))
             more  == sticky \/ \E j \in 2..Len(rest) : rest[j] = 1
             up    == rest[1] = 1 /\ (more \/ top[MantBits] = 1)
             inc   == IF up THEN IncBits(top) ELSE top
             drop  == Len(bits) - MantBits
         IN  IF Len(inc) > MantBits
             THEN [m |-> SubSeq(inc, 1, MantBits), e |-> e + drop + 1]
             ELSE [m |-> inc, e |-> e + drop]

\* long division: the next 8 * n quotient bits of r / l, and the remainder
RECURSIVE DivBytes(_, _, _)
DivBytes(r, l, n) ==
    IF n = 0 THEN <<<<>>, r>>
    ELSE LET rest == DivBytes((r * 256) % l, l, n - 1)
         IN  << ByteBits((r * 256) \div l) \o rest[1], rest[2] >>

\* scale a and b by powers of two until b <= a < 2b
RECURSIVE Normalise(_, _, _)
Normalise(a, b, e) ==
    IF a < b THEN Normalise(2 * a, b, e - 1)
    ELSE IF a >= 2 * b THEN Normalise(a, 2 * b, e + 1)
    ELSE <<a, b, e>>

\* a / b of two positive ints: the correctly rounded quotient
FloatDiv(a, b) ==
    LET n    == Normalise(a, b, 0)
        q    == DivBytes(n[1] - n[2], n[2], 7)
        bits == <<1>> \o q[1]
    IN  RoundBits(bits, q[2] # 0, n[3] - 56)

\* bytes[1..i] * w + carry, as bits
RECURSIVE MulBytes(_, _, _, _)
MulBytes(bytes, i, w, carry) ==
    IF i = 0 THEN IntBits(carry)
    ELSE LET t == bytes[i] * w + carry
         IN  MulBytes(bytes, i - 1, w, t \div 256) \o ByteBits(t % 256)

\* w * x of a positive int w and a float x: float(w) is exact, the product
\* is the exact product rounded once
FloatMulInt(w, x) ==
    LET padded == Zeros(56 - MantBits) \o x.m
        bytes  == [j \in 1..7 |-> BitsToInt(SubSeq(padded, 8 * (j - 1) + 1, 8 * j))]
    IN  RoundBits(StripZeros(MulBytes(bytes, 7, w, 0)), FALSE, x.e)

\* int(x): truncation toward zero
FloatToInt(x) ==
    IF x.e >= 0 THEN BitsToInt(x.m \o Zeros(x.e))
    ELSE IF MantBits + x.e <= 0 THEN 0
    ELSE BitsToInt(SubSeq(x.m, 1, MantBits + x.e))

-----------------------------------------------------------------------------
(* pages/(1) Image Resizer.py: the helpers                                 *)

\* An image is its size and its colour mode: [size |-> <<w, h>>, mode |-> m]
Width(img)  == img.size[1]
Height(img) == img.size[2]

\* Image.resize(new_size, ...) returns an image of that size, same mode
Resized(img, new_size) == [img EXCEPT !.size = new_size]

\* Image.convert(mode)
Converted(img, mode) == [img EXCEPT !.mode = mode]

\* _resize_image without the clamp to one pixel
ResizeImageUnclamped(img, p) ==
    Resized(img, <<(Width(img) * p) \div 100, (Height(img) * p) \div 100>>)

_resize_image(img, p) ==
    LET w == Width(img)
        h == Height(img)
        new_size == <<Max(1, (w * p) \div 100), Max(1, (h * p) \div 100)>>
    IN  Resized(img, new_size)

\* PIL save formats, as the strings the code uses
FmtJPEG == <<"J","P","E","G">>
FmtPNG  == <<"P","N","G">>
FmtWEBP == <<"W","E","B","P">>
FmtBMP  == <<"B","M","P">>
FmtTIFF == <<"T","I","F","F">>

\* the dict literal of _infer_format_from_name, as (key, value) pairs
FormatTable ==
    { << <<"j","p","g">>,     FmtJPEG >>,
      << <<"j","p","e","g">>, FmtJPEG >>,
      << <<"p","n","g">>,     FmtPNG  >>,
      << <<"w","e","b","p">>, FmtWEBP >>,
      << <<"b","m","p">>,     FmtBMP  >>,
      << <<"t","i","f">>,     FmtTIFF >>,
      << <<"t","i","f","f">>, FmtTIFF >> }

\* dict.get(key, default)
DictGet(table, key, default) ==
    IF \E kv \in table : kv[1] = key
    THEN (CHOOSE kv \in table : kv[1] = key)[2]
    ELSE default

\* _infer_format_from_name without .lower()
InferFormatCaseSensitive(name) ==
    LET parts == Split(name, ".")
        ext   == IF Contains(name, ".") THEN parts[Len(parts)] ELSE <<>>
    IN  DictGet(FormatTable, ext, FmtPNG)

_infer_format_from_name(name) ==
    LET parts == Split(name, ".")
        ext   == IF Contains(name, ".") THEN StrLower(parts[Len(parts)]) ELSE <<>>
    IN  DictGet(FormatTable, ext, FmtPNG)

\* _safe_name that leaves the backslash alone
SafeNameSlashOnly(name) == Strip(Replace(name, "/", "_"))

_safe_name(name) == Strip(Replace(Replace(name, "/", "_"), "\\", "_"))

-----------------------------------------------------------------------------
(* pages/(2) PDF Resizer.py (pypdf variant): the helper of the image loop  *)

\* _downscale_if_needed with round() in place of int()
DownscaleRounding(im, c) ==
    IF ~c.downscale THEN <<im, FALSE>>
    ELSE LET w == Width(im)
             h == Height(im)
             long_side == Max(w, h)
         IN  IF long_side <= c.max_side THEN <<im, FALSE>>
             ELSE LET new_size ==
                          <<Max(1, (2 * w * c.max_side + long_side) \div (2 * long_side)),
                            Max(1, (2 * h * c.max_side + long_side) \div (2 * long_side))>>
                  IN  <<Resized(Converted(im, "RGB"), new_size), TRUE>>

\* _downscale_if_needed that does not look at the downscale checkbox
DownscaleIgnoringCheckbox(im, c) ==
    LET w == Width(im)
        h == Height(im)
        long_side == Max(w, h)
    IN  IF long_side <= c.max_side THEN <<im, FALSE>>
        ELSE LET scale    == FloatDiv(c.max_side, long_side)
                 new_size == <<Max(1, FloatToInt(FloatMulInt(w, scale))),
                               Max(1, FloatToInt(FloatMulInt(h, scale)))>>
             IN  <<Resized(Converted(im, "RGB"), new_size), TRUE>>

\* the closure reads downscale and max_side from the page: c is
\* [quality, downscale, max_side]
_downscale_if_needed(im, c) ==
    IF ~c.downscale THEN <<im, FALSE>>
    ELSE LET w == Width(im)
             h == Height(im)
             long_side == Max(w, h)
         IN  IF long_side <= c.max_side THEN <<im, FALSE>>
             ELSE LET scale    == FloatDiv(c.max_side, long_side)
                      new_size == <<Max(1, FloatToInt(FloatMulInt(w, scale))),
                                    Max(1, FloatToInt(FloatMulInt(h, scale)))>>
                      im2      == Resized(Converted(im, "RGB"), new_size)
                  IN  <<im2, TRUE>>

-----------------------------------------------------------------------------
(* Calls of the pure helpers on inputs drawn from bounded sets             *)

MaxDim == 3

\* image sides: the small ones, where the clamp to one pixel acts, and some
\* real ones
ResizeDims == (1..MaxDim) \cup {500, 1000}

ResizeCalls ==
    { [fn |-> "_resize_image", img |-> [size |-> <<w, h>>, mode |-> "RGB"], pct |-> p] :
        w \in ResizeDims, h \in ResizeDims, p \in 1..100 }

NameStems ==
    { <<>>, <<"a">>, <<"a", ".", "j", "p", "g">>, <<"T", "I", "F">>,
      <<" ", "x", "/", "y", "\\", "z", " ">> }

NameExts ==
    { <<>>,
      <<"j","p","g">>, <<"J","P","G">>, <<"J","p","g">>,
      <<"j","p","e","g">>, <<"J","P","E","G">>,
      <<"p","n","g">>, <<"P","N","G">>,
      <<"w","e","b","p">>, <<"W","e","b","P">>,
      <<"b","m","p">>, <<"B","M","P">>,
      <<"t","i","f">>, <<"T","i","F">>,
      <<"t","i","f","f">>, <<"T","I","F","F">>,
      <<"g","i","f">>, <<"j","p","g","x">>, <<"j","p">>, <<"p","d","f">> }

\* names with an extension, and the same characters without the dot
FileNames ==
    { s \o <<".">> \o e : s \in NameStems, e \in NameExts }
        \cup { s \o e : s \in NameStems, e \in NameExts }

FormatCalls == { [fn |-> "_infer_format_from_name", name |-> n] : n \in FileNames }

DownscaleDims == (1..MaxDim) \cup {22, 428, 569, 856, 1000, 3000, 4000}

DownscaleBounds == {1, 2, 15, 512, 2048}

DownscaleCalls ==
    { [fn |-> "_downscale_if_needed", im |-> [size |-> <<w, h>>, mode |-> "RGB"],
       c |-> [quality |-> 70, downscale |-> d, max_side |-> b]] :
        w \in DownscaleDims, h \in DownscaleDims, d \in BOOLEAN, b \in DownscaleBounds }

IdleFn  == call = <<>> /\ ret = <<>>
IdleImg == /\ uploaded_files = <<>> /\ pct = 50 /\ pc = "off" /\ idx = 0
           /\ zf = <<>> /\ save_calls = <<>> /\ error_count = 0
           /\ zip_bytes = <<>> /\ processed_msg = <<>>
IdleDoc == /\ n_pages = 0 /\ cfg = <<>> /\ d_pc = "off" /\ p_i = 0 /\ k_i = 0
           /\ stats = <<>> /\ img_log = <<>>
IdleSes == /\ results = <<>> /\ last_params = <<>> /\ cur_params = <<>>
           /\ pdf_files = <<>> /\ run = FALSE /\ f_idx = 0 /\ s_pc = "off"
           /\ st_errors = {} /\ info_cleared = FALSE /\ visited = <<>>
IdleRem == /\ r_files = <<>> /\ r_idx = 0 /\ r_pc = "off"
           /\ compressed_paths = <<>> /\ r_visited = <<>>

InitFn ==
    /\ call \in ResizeCalls \cup FormatCalls \cup DownscaleCalls
    /\ ret = <<>>
    /\ IdleImg /\ IdleDoc /\ IdleSes /\ IdleRem

CallResizeImage ==
    /\ call # <<>> /\ call.fn = "_resize_image" /\ ret = <<>>
    /\ ret' = <<_resize_image(call.img, call.pct)>>
    /\ UNCHANGED <<call, imgVars, docVars, sesVars, remVars>>

CallInferFormat ==
    /\ call # <<>> /\ call.fn = "_infer_format_from_name" /\ ret = <<>>
    /\ ret' = <<_infer_format_from_name(call.name)>>
    /\ UNCHANGED <<call, imgVars, docVars, sesVars, remVars>>

CallDownscale ==
    /\ call # <<>> /\ call.fn = "_downscale_if_needed" /\ ret = <<>>
    /\ ret' = <<_downscale_if_needed(call.im, call.c)>>
    /\ UNCHANGED <<call, imgVars, docVars, sesVars, remVars>>

NextFn == CallResizeImage \/ CallInferFormat \/ CallDownscale

SpecFn == InitFn /\ [][NextFn]_vars

Returned(fn) == call # <<>> /\ call.fn = fn /\ ret # <<>>

-----------------------------------------------------------------------------
\* C4: for every image of width w >= 1 and height h >= 1 and every pct in
\* 1..100, _resize_image returns an image of width max(1, floor(w*pct/100))
\* and height max(1, floor(h*pct/100)); both are at least 1.
IsClampedFloor(n, x, p) ==
    /\ n >= 1
    /\ IF x * p < 100 THEN n = 1
       ELSE 100 * n <= x * p /\ x * p < 100 * (n + 1)

C4_ResizeDimensions ==
    Returned("_resize_image") =>
        /\ IsClampedFloor(ret[1].size[1], call.img.size[1], call.pct)
        /\ IsClampedFloor(ret[1].size[2], call.img.size[2], call.pct)

\* a 2 x 1000 image at 10 percent: the width is clamped, the height is not
C4_Witness ==
    /\ Returned("_resize_image")
    /\ call.img.size = <<2, 1000>> /\ call.pct = 10
    /\ ret[1].size = <<1, 100>>

-----------------------------------------------------------------------------
\* C8: format resolution is a total, case-insensitive function of the text
\* after the last dot of the filename: jpg/jpeg give JPEG, png PNG, webp WEBP,
\* bmp BMP, tif/tiff TIFF, anything else or no dot PNG; two filenames that
\* differ only in the letter case of the extension resolve to the same format.
SameLetter(c, d) ==
    \/ c = d
    \/ \E i \in 1..Len(UpperChars) : {c, d} = {UpperChars[i], LowerChars[i]}

SameIgnoringCase(s, t) ==
    Len(s) = Len(t) /\ \A i \in 1..Len(s) : SameLetter(s[i], t[i])

\* 0 when the name has no dot
LastDot(name) ==
    LET dots == {i \in 1..Len(name) : name[i] = "."}
    IN  IF dots = {} THEN 0 ELSE CHOOSE i \in dots : \A j \in dots : j <= i

TextAfterLastDot(name) ==
    IF LastDot(name) = 0 THEN <<>> ELSE SubSeq(name, LastDot(name) + 1, Len(name))

SpecifiedFormat(name) ==
    LET ext == TextAfterLastDot(name)
        is(t) == SameIgnoringCase(ext, t)
    IN  IF is(<<"j","p","g">>) \/ is(<<"j","p","e","g">>) THEN FmtJPEG
        ELSE IF is(<<"p","n","g">>) THEN FmtPNG
        ELSE IF is(<<"w","e","b","p">>) THEN FmtWEBP
        ELSE IF is(<<"b","m","p">>) THEN FmtBMP
        ELSE IF is(<<"t","i","f">>) \/ is(<<"t","i","f","f">>) THEN FmtTIFF
        ELSE FmtPNG

DifferOnlyInExtensionCase(n1, n2) ==
    /\ LastDot(n1) = LastDot(n2)
    /\ SubSeq(n1, 1, LastDot(n1)) = SubSeq(n2, 1, LastDot(n2))
    /\ SameIgnoringCase(TextAfterLastDot(n1), TextAfterLastDot(n2))

C8_FormatResolution ==
    Returned("_infer_format_from_name") =>
        /\ ret[1] \in {FmtJPEG, FmtPNG, FmtWEBP, FmtBMP, FmtTIFF}
        /\ ret[1] = SpecifiedFormat(call.name)
        /\ \A n2 \in FileNames :
              DifferOnlyInExtensionCase(call.name, n2)
                  => _infer_format_from_name(n2) = ret[1]

\* "a.jpg.TiF": an upper-case extension after the last of two dots
C8_Witness ==
    /\ Returned("_infer_format_from_name")
    /\ call.name = <<"a", ".", "j", "p", "g", ".", "T", "i", "F">>
    /\ ret[1] = FmtTIFF

-----------------------------------------------------------------------------
\* C5 (as claimed): in max-dimension mode, when the longer side exceeds the
\* bound and downscaling is enabled, the new dimensions are
\* max(1, round(w * bound / max(w,h))) and max(1, round(h * bound / max(w,h))).
Abs(x) == IF x < 0 THEN 0 - x ELSE x

\* n is max(1, r) for an integer r nearest to a / b (either one on a tie)
IsClampedRound(n, a, b) ==
    \/ 2 * Abs(n * b - a) <= b /\ n >= 1
    \/ n = 1 /\ 2 * a <= b

DownscaleApplies ==
    /\ Returned("_downscale_if_needed")
    /\ call.c.downscale
    /\ Max(call.im.size[1], call.im.size[2]) > call.c.max_side

C5_RoundedDimensions ==
    DownscaleApplies =>
        LET long == Max(call.im.size[1], call.im.size[2])
        IN  /\ IsClampedRound(ret[1][1].size[1], call.im.size[1] * call.c.max_side, long)
            /\ IsClampedRound(ret[1][1].size[2], call.im.size[2] * call.c.max_side, long)

\* C5 (amended): the scaled side is truncated, not rounded: each new dimension
\* is max(1, floor(x * bound / max(w,h))), or one less than that floor (still
\* at least 1) when x * bound / max(w,h) is a whole number that the double
\* product x * (bound / max(w,h)) falls short of.
IsClampedTrunc(n, a, b) ==
    \/ n = Max(1, a \div b)
    \/ a % b = 0 /\ n = Max(1, (a \div b) - 1)

C5_TruncatedDimensions ==
    DownscaleApplies =>
        LET long == Max(call.im.size[1], call.im.size[2])
        IN  /\ IsClampedTrunc(ret[1][1].size[1], call.im.size[1] * call.c.max_side, long)
            /\ IsClampedTrunc(ret[1][1].size[2], call.im.size[2] * call.c.max_side, long)
            /\ ret[1][2]

\* 1000 x 3000 under a bound of 2048: 682.67 becomes 682
C5_Witness ==
    /\ DownscaleApplies
    /\ call.im.size = <<1000, 3000>> /\ call.c.max_side = 2048
    /\ ret[1][1].size = <<682, 2048>>

-----------------------------------------------------------------------------
(* pages/(1) Image Resizer.py: one run of the script with the button       *)
(* pressed.  An uploaded file is [name, img, fault]: img is what           *)
(* Image.open yields, fault the library call that raises on this file      *)
(* ("decode": Image.open, "resize": Image.resize, "encode": Image.save,    *)
(* "none": no call raises).                                                 *)

\* the options of the select_slider
PctOptions == {10, 20, 30, 40, 50, 60, 70, 80, 90}

\* colour modes Image.open can yield
OpenModes == {"1", "L", "LA", "P", "PA", "RGB", "RGBA", "CMYK", "I;16"}

\* f"{base}_{pct}pct.{ext}"
ArcName(name, p, fmt) ==
    LET base == IF Contains(name, ".") THEN _safe_name(RSplit1(name, ".")[1])
                ELSE _safe_name(name)
        ext  == IF fmt # FmtJPEG THEN StrLower(fmt) ELSE <<"j","p","g">>
    IN  base \o <<"_">> \o IntToStr(p) \o <<"p","c","t",".">> \o ext

\* the try body that counts a failing Image.save as a success
TryBodyUncheckedSave(f, p, i) ==
    IF f.fault \in {"decode", "resize"}
    THEN [raised |-> TRUE, saves |-> <<>>, entries |-> <<>>]
    ELSE LET fmt == _infer_format_from_name(f.name)
             resized == _resize_image(f.img, p)
         IN  [raised  |-> FALSE,
              saves   |-> << <<fmt, resized.mode>> >>,
              entries |-> IF f.fault = "encode" THEN <<>>
                          ELSE <<[arcname |-> ArcName(f.name, p, fmt), fmt |-> fmt,
                                  img |-> resized, src |-> i]>>]

\* the try body of the loop for the file f at position i: whether it raised,
\* the images it handed to Image.save and the entries it wrote to the ZipFile
TryBody(f, p, i) ==
    IF f.fault = "decode"
    THEN [raised |-> TRUE, saves |-> <<>>, entries |-> <<>>]
    ELSE LET img == f.img
             fmt == _infer_format_from_name(f.name)
         IN  IF f.fault = "resize"
             THEN [raised |-> TRUE, saves |-> <<>>, entries |-> <<>>]
             ELSE LET resized0 == _resize_image(img, p)
                      resized  == IF fmt = FmtJPEG /\ resized0.mode \in {"RGBA", "LA", "P"}
                                  THEN Converted(resized0, "RGB")
                                  ELSE resized0
                      saves    == << <<fmt, resized.mode>> >>
                  IN  IF f.fault = "encode"
                      THEN [raised |-> TRUE, saves |-> saves, entries |-> <<>>]
                      ELSE [raised  |-> FALSE,
                            saves   |-> saves,
                            entries |-> <<[arcname |-> ArcName(f.name, p, fmt),
                                           fmt |-> fmt, img |-> resized, src |-> i]>>]

\* process = True
PressProcess ==
    /\ pc = "idle"
    /\ error_count' = 0
    /\ zip_bytes' = <<>>
    /\ IF uploaded_files = <<>>
       THEN pc' = "done" /\ UNCHANGED idx
       ELSE pc' = "loop" /\ idx' = 1
    /\ zf' = <<>>
    /\ UNCHANGED <<uploaded_files, pct, save_calls, processed_msg>>
    /\ UNCHANGED <<fnVars, docVars, sesVars, remVars>>

\* one iteration of "for f in uploaded_files", the except clause included
ProcessFile ==
    /\ pc = "loop" /\ idx <= Len(uploaded_files)
    /\ LET r == TryBody(uploaded_files[idx], pct, idx)
       IN  /\ save_calls' = save_calls \o r.saves
           /\ zf' = zf \o r.entries
           /\ error_count' = IF r.raised THEN error_count + 1 ELSE error_count
    /\ idx' = idx + 1
    /\ UNCHANGED <<uploaded_files, pct, pc, zip_bytes, processed_msg>>
    /\ UNCHANGED <<fnVars, docVars, sesVars, remVars>>

\* the archive is closed and read back; its bytes are never empty, so the
\* success message and the download button follow
FinishZip ==
    /\ pc = "loop" /\ idx > Len(uploaded_files)
    /\ zip_bytes' = <<zf>>
    /\ processed_msg' = <<Len(uploaded_files) - error_count>>
    /\ pc' = "done"
    /\ UNCHANGED <<uploaded_files, pct, idx, zf, save_calls, error_count>>
    /\ UNCHANGED <<fnVars, docVars, sesVars, remVars>>

NextImg == PressProcess \/ ProcessFile \/ FinishZip

MaxBatch == 3

Seqs(S, n) == UNION { [1..k -> S] : k \in 0..n }

PlainImage == [size |-> <<1000, 500>>, mode |-> "RGB"]

\* batches of up to MaxBatch files, each failing at any stage or at none
BatchFiles ==
    { [name |-> n, img |-> PlainImage, fault |-> x] :
        n \in { <<"a",".","p","n","g">>, <<"a",".","j","p","g">> },
        x \in {"none", "decode", "resize", "encode"} }

\* single files of every colour mode, for a JPEG and for a PNG name
ModeFiles ==
    { [name |-> n, img |-> [size |-> <<4, 1>>, mode |-> m], fault |-> x] :
        n \in { <<"b",".","J","P","G">>, <<"b",".","j","p","e","g">>, <<"b",".","p","n","g">> },
        m \in OpenModes,
        x \in {"none", "encode"} }

\* single files of every name
NameFiles == { [name |-> n, img |-> PlainImage, fault |-> "none"] : n \in FileNames }

InitImg ==
    /\ uploaded_files \in Seqs(BatchFiles, MaxBatch)
                             \cup { <<f>> : f \in ModeFiles \cup NameFiles }
    /\ pct \in PctOptions
    /\ pc = "idle" /\ idx = 0 /\ zf = <<>> /\ save_calls = <<>>
    /\ error_count = 0 /\ zip_bytes = <<>> /\ processed_msg = <<>>
    /\ IdleFn /\ IdleDoc /\ IdleSes /\ IdleRem

SpecImg == InitImg /\ [][NextImg]_vars

-----------------------------------------------------------------------------
\* C1: for a batch of N uploaded images of which K fail at any stage (decode,
\* resize, encode), the archive written at the end holds exactly N-K entries,
\* the failure counter equals K and the processed count reported is N-K.
Failing(files) == {i \in 1..Len(files) : files[i].fault # "none"}

C1_BatchCounts ==
    (pc = "done" /\ uploaded_files # <<>>) =>
        LET N == Len(uploaded_files)
            K == Cardinality(Failing(uploaded_files))
        IN  /\ zip_bytes # <<>> /\ Len(zip_bytes[1]) = N - K
            /\ error_count = K
            /\ processed_msg = <<N - K>>

\* three files, one failing to decode and one failing to encode
C1_Witness ==
    /\ pc = "done" /\ Len(uploaded_files) = 3
    /\ uploaded_files[1].fault = "decode"
    /\ uploaded_files[2].fault = "none"
    /\ uploaded_files[3].fault = "encode"
    /\ Len(zip_bytes[1]) = 1 /\ error_count = 2 /\ processed_msg = <<1>>

-----------------------------------------------------------------------------
\* C7: when the resolved output format is JPEG, the image handed to the
\* encoder never has a colour mode with an alpha channel or a palette.
AlphaOrPaletteModes == {"LA", "PA", "P", "RGBA", "La", "RGBa"}

C7_NoAlphaOrPaletteToJpeg ==
    \A i \in 1..Len(save_calls) :
        save_calls[i][1] = FmtJPEG => save_calls[i][2] \notin AlphaOrPaletteModes

-----------------------------------------------------------------------------
\* C9 (as claimed): every archive entry is named
\* {sanitizedBaseName}_{pct}pct.{extension}: the extension is "jpg" for JPEG
\* and the lower-case format name otherwise, the base name is the filename
\* without its extension, with '/' and '\' stripped and the surrounding
\* whitespace stripped; the entry name has no path separator and no character
\* that was not in the original base name.
PathSeparators == {"/", "\\"}

NameWithoutExtension(name) ==
    IF LastDot(name) = 0 THEN name ELSE SubSeq(name, 1, LastDot(name) - 1)

IsSeparator(c) == c \in PathSeparators
NotSeparator(c) == c \notin PathSeparators

\* s without leading and trailing whitespace
Trimmed(s) ==
    LET solid == {i \in 1..Len(s) : s[i] \notin Whitespace}
    IN  IF solid = {} THEN <<>>
        ELSE SubSeq(s, CHOOSE i \in solid : \A j \in solid : i <= j,
                       CHOOSE i \in solid : \A j \in solid : j <= i)

SpecifiedExtension(fmt) ==
    IF fmt = FmtJPEG THEN <<"j","p","g">>
    ELSE IF fmt = FmtPNG THEN <<"p","n","g">>
    ELSE IF fmt = FmtWEBP THEN <<"w","e","b","p">>
    ELSE IF fmt = FmtBMP THEN <<"b","m","p">>
    ELSE <<"t","i","f","f">>

Suffix(p, fmt) == <<"_">> \o IntToStr(p) \o <<"p","c","t",".">> \o SpecifiedExtension(fmt)

Chars(s) == {s[i] : i \in 1..Len(s)}

EntryNamedWithBase(e, base) ==
    /\ e.arcname = base \o Suffix(pct, e.fmt)
    /\ \A c \in Chars(e.arcname) : NotSeparator(c)

C9_EntryNameStripped ==
    \A k \in 1..Len(zf) :
        LET orig == NameWithoutExtension(uploaded_files[zf[k].src].name)
            base == Trimmed(SelectSeq(orig, NotSeparator))
        IN  /\ EntryNamedWithBase(zf[k], base)
            /\ Chars(base) \subseteq Chars(orig)

\* C9 (amended): as claimed, except that each '/' and '\' of the base name is
\* replaced by '_' rather than removed; the entry name has no path separator,
\* and every character of its base part is a character of the original base
\* name or the '_' that replaced a separator.
C9_EntryNameReplaced ==
    \A k \in 1..Len(zf) :
        LET orig == NameWithoutExtension(uploaded_files[zf[k].src].name)
            base == Trimmed([i \in 1..Len(orig) |->
                                IF IsSeparator(orig[i]) THEN "_" ELSE orig[i]])
        IN  /\ EntryNamedWithBase(zf[k], base)
            /\ Chars(base) \subseteq Chars(orig) \cup {"_"}

\* " x/y\z .JPG" at 50 percent is stored as "x_y_z_50pct.jpg"
C9_Witness ==
    /\ pc = "done" /\ pct = 50 /\ Len(zf) = 1
    /\ uploaded_files[1].name = <<" ", "x", "/", "y", "\\", "z", " ", ".", "J", "P", "G">>
    /\ zf[1].arcname = <<"x", "_", "y", "_", "z", "_", "5", "0", "p", "c", "t", ".", "j", "p", "g">>

-----------------------------------------------------------------------------
(* pages/(2) PDF Resizer.py, pypdf variant: the image loop of one document. *)
(* An embedded image is [size, mode, fault]: fault is the call that raises  *)
(* on it ("decode": img.image or Image.open, "resize": Image.resize,        *)
(* "replace": img.replace, i.e. the re-encoding, "none": no call raises).   *)

ZeroStats == [images_total |-> 0, images_replaced |-> 0, images_downscaled |-> 0]

\* the body of "for img in page.images", the except clause included: the
\* counters after it and the image the page embeds after it
ImageStep(st, img, c) ==
    LET total == [st EXCEPT !.images_total = @ + 1]
        kept  == [size |-> img.size, mode |-> img.mode, replaced |-> FALSE]
    IN  IF img.fault = "decode" THEN <<total, kept>>
        ELSE LET pil0 == [size |-> img.size, mode |-> img.mode]
                 pil  == IF pil0.mode \notin {"RGB", "L"}
                         THEN Converted(pil0, "RGB") ELSE pil0
                 r    == _downscale_if_needed(pil, c)
             IN  IF r[2] /\ img.fault = "resize" THEN <<total, kept>>
                 ELSE LET down == IF r[2]
                                  THEN [total EXCEPT !.images_downscaled = @ + 1]
                                  ELSE total
                      IN  IF img.fault = "replace" THEN <<down, kept>>
                          ELSE << [down EXCEPT !.images_replaced = @ + 1],
                                  [size |-> r[1].size, mode |-> r[1].mode,
                                   replaced |-> TRUE] >>

\* the whole loop over the pages of a document given as a sequence of pages,
\* each a sequence of images
RECURSIVE RecompressImages(_, _, _)
RecompressImages(st, imgs, c) ==
    IF imgs = <<>> THEN st
    ELSE RecompressImages(ImageStep(st, Head(imgs), c)[1], Tail(imgs), c)

RECURSIVE RecompressPages(_, _, _)
RecompressPages(st, pages, c) ==
    IF pages = <<>> THEN st
    ELSE RecompressPages(RecompressImages(st, Head(pages), c), Tail(pages), c)

MaxPages == 1
MaxImgs == 2

\* values the widgets can take
PdfConfigs ==
    { [quality |-> q, downscale |-> d, max_side |-> m] :
        q \in {70, 90}, d \in BOOLEAN, m \in {512, 2048} }

DocConfigs == { c \in PdfConfigs : c.quality = 70 }

\* sides above, at and below the two bounds; a paletted image among them
PdfImages ==
    { [size |-> sz, mode |-> "RGB", fault |-> x] :
        sz \in { <<4000, 3000>>, <<2048, 1536>>, <<384, 512>> },
        x \in {"none", "decode", "resize", "replace"} }
    \cup { [size |-> <<569, 569>>, mode |-> "P", fault |-> x] : x \in {"none", "replace"} }

InitDoc ==
    /\ n_pages \in 0..MaxPages
    /\ cfg \in DocConfigs
    /\ d_pc = "pages" /\ p_i = 1 /\ k_i = 1
    /\ stats = ZeroStats
    /\ img_log = <<>>
    /\ IdleFn /\ IdleImg /\ IdleSes /\ IdleRem

\* the page yields one more image
NextImage ==
    /\ d_pc = "pages" /\ p_i <= n_pages /\ k_i <= MaxImgs
    /\ \E img \in PdfImages :
          LET r == ImageStep(stats, img, cfg)
          IN  /\ stats' = r[1]
              /\ img_log' = <<[img |-> img,
                               dd  |-> r[1].images_downscaled - stats.images_downscaled,
                               dr  |-> r[1].images_replaced - stats.images_replaced,
                               out |-> r[2]]>>
    /\ k_i' = k_i + 1
    /\ UNCHANGED <<n_pages, cfg, d_pc, p_i>>
    /\ UNCHANGED <<fnVars, imgVars, sesVars, remVars>>

\* page.images is exhausted: progress is reported, the next page follows
NextPage ==
    /\ d_pc = "pages" /\ p_i <= n_pages
    /\ p_i' = p_i + 1 /\ k_i' = 1
    /\ UNCHANGED <<n_pages, cfg, d_pc, stats, img_log>>
    /\ UNCHANGED <<fnVars, imgVars, sesVars, remVars>>

\* writer.write(f)
WriteDoc ==
    /\ d_pc = "pages" /\ p_i > n_pages
    /\ d_pc' = "written"
    /\ UNCHANGED <<n_pages, cfg, p_i, k_i, stats, img_log>>
    /\ UNCHANGED <<fnVars, imgVars, sesVars, remVars>>

NextDoc == NextImage \/ NextPage \/ WriteDoc

SpecDoc == InitDoc /\ [][NextDoc]_vars

LongSide(img) == Max(img.size[1], img.size[2])

-----------------------------------------------------------------------------
\* C2: for every embedded image whose decode or re-encode (replace) step
\* fails, neither imagesReplaced nor imagesDownscaled is incremented for that
\* image and the original image is left in place, also when the image needed
\* downscaling and the failure happens at the re-encode step.
C2_FailedImageCountsNothing ==
    \A i \in 1..Len(img_log) :
        img_log[i].img.fault \in {"decode", "replace"} =>
            /\ img_log[i].dr = 0
            /\ img_log[i].dd = 0
            /\ ~img_log[i].out.replaced

-----------------------------------------------------------------------------
\* C6: for every embedded image whose longer side is at most maxSide, or
\* whenever downscaling is disabled, the image keeps its dimensions and
\* imagesDownscaled is not incremented for it; imagesDownscaled is incremented
\* only for images whose longer side exceeds maxSide with downscaling enabled.
C6_NoDownscaleWithinBound ==
    \A i \in 1..Len(img_log) :
        LET e == img_log[i]
            within == LongSide(e.img) <= cfg.max_side \/ ~cfg.downscale
        IN  /\ within => e.dd = 0 /\ e.out.size = e.img.size
            /\ e.dd # 0 => cfg.downscale /\ LongSide(e.img) > cfg.max_side

\* a 2048 x 1536 image under maxSide 2048 is re-encoded at its own size
C6_Witness ==
    /\ img_log # <<>>
    /\ cfg.downscale /\ cfg.max_side = 2048
    /\ img_log[1].img.size = <<2048, 1536>>
    /\ img_log[1].out.replaced /\ img_log[1].out.size = <<2048, 1536>>
    /\ img_log[1].dd = 0
    /\ stats.images_downscaled = 1

-----------------------------------------------------------------------------
(* pages/(2) PDF Resizer.py, pypdf variant: the page across reruns.  Every  *)
(* widget interaction reruns the script from the top with the session state *)
(* kept.  An uploaded PDF is [name, size, doc, fault]: size is the length   *)
(* of uploaded.read(), doc its pages, fault the call that raises on it      *)
(* ("parse": PdfWriter(clone_from=...), "write": writer.write, "none").     *)

\* f"{uploaded.name}-{uploaded.size}"
FileId(f) == <<f.name, f.size>>

\* cur_params != st.session_state.last_params, for quality alone
ParamsChangedQualityOnly(cur, last) ==
    last = <<>> \/ cur.quality # last[1].quality

\* cur_params != st.session_state.last_params; last is <<>> for the empty
\* dict of the bootstrap and <<params>> afterwards
ParamsChanged(cur, last) == <<cur>> # last

\* dict assignment results[key] = value
DictSet(d, key, value) ==
    [k \in (DOMAIN d) \cup {key} |-> IF k = key THEN value ELSE d[k]]

\* the script from its top to the for loop, for the widget values given
ScriptRun(cur, files, pressed) ==
    LET params_changed == ParamsChanged(cur, last_params)
        clearing       == params_changed /\ DOMAIN results # {}
    IN  /\ cur_params' = cur
        /\ pdf_files' = files
        /\ run' = pressed
        /\ info_cleared' = clearing
        /\ results' = IF clearing THEN <<>> ELSE results
        /\ st_errors' = {}
        /\ visited' = <<>>
        /\ IF pressed /\ files # <<>>
           THEN /\ last_params' = <<cur>>
                /\ s_pc' = "loop"
                /\ f_idx' = 1
           ELSE /\ s_pc' = "rendered"
                /\ UNCHANGED <<last_params, f_idx>>
        /\ UNCHANGED <<fnVars, imgVars, docVars, remVars>>

MaxPdfs == 2

BigImage    == [size |-> <<4000, 3000>>, mode |-> "RGB", fault |-> "none"]
BrokenImage == [size |-> <<4000, 3000>>, mode |-> "RGB", fault |-> "replace"]

PdfUniverse ==
    { [name |-> "empty.pdf",  size |-> 0,   doc |-> <<>>,                fault |-> "none"],
      [name |-> "good.pdf",   size |-> 100, doc |-> << <<BigImage, BrokenImage>>, <<>> >>,
                                                                         fault |-> "none"],
      [name |-> "broken.pdf", size |-> 200, doc |-> <<>>,                fault |-> "parse"],
      [name |-> "full.pdf",   size |-> 300, doc |-> << <<BigImage>> >>,  fault |-> "write"] }

\* the values the sliders, the checkbox and the number input are moved to
SessionConfigs ==
    { [quality |-> 70, downscale |-> TRUE,  max_side |-> 2048],
      [quality |-> 90, downscale |-> TRUE,  max_side |-> 2048],
      [quality |-> 70, downscale |-> FALSE, max_side |-> 2048],
      [quality |-> 70, downscale |-> TRUE,  max_side |-> 512] }

\* the state after the first run of the script: the session state is
\* bootstrapped, the widgets hold their defaults
InitSes ==
    /\ results = <<>>
    /\ last_params = <<>>
    /\ cur_params = [quality |-> 70, downscale |-> TRUE, max_side |-> 2048]
    /\ pdf_files = <<>>
    /\ run = FALSE
    /\ f_idx = 0
    /\ s_pc = "rendered"
    /\ st_errors = {}
    /\ info_cleared = FALSE
    /\ visited = <<>>
    /\ IdleFn /\ IdleImg /\ IdleDoc /\ IdleRem

\* the user moves a slider, ticks the checkbox or edits the number input
ChangeSettings ==
    /\ s_pc = "rendered"
    /\ \E c \in SessionConfigs \ {cur_params} : ScriptRun(c, pdf_files, FALSE)

\* the user changes the uploaded files
ChangeUpload ==
    /\ s_pc = "rendered"
    /\ \E files \in Seqs(PdfUniverse, MaxPdfs) \ {pdf_files} :
          ScriptRun(cur_params, files, FALSE)

\* the user presses "Compress PDF(s)"; a setting moved just before the
\* click reaches the script in the same rerun
PressCompress ==
    /\ s_pc = "rendered"
    /\ \E c \in SessionConfigs : ScriptRun(c, pdf_files, TRUE)

\* one iteration of "for idx, uploaded in enumerate(uploaded_files)"
CompressFile ==
    /\ s_pc = "loop" /\ f_idx <= Len(pdf_files)
    /\ LET f == pdf_files[f_idx]
       IN  /\ visited' = Append(visited, f.name)
           /\ IF f.size = 0 \/ f.fault # "none"
              THEN /\ st_errors' = st_errors \cup {f.name}
                   /\ UNCHANGED results
              ELSE LET st == RecompressPages(ZeroStats, f.doc, cur_params)
                   IN  /\ results' = DictSet(results, FileId(f),
                                        [name |-> f.name,
                                         images_total |-> st.images_total,
                                         images_replaced |-> st.images_replaced,
                                         images_downscaled |-> st.images_downscaled,
                                         params |-> cur_params])
                       /\ UNCHANGED st_errors
    /\ f_idx' = f_idx + 1
    /\ UNCHANGED <<last_params, cur_params, pdf_files, run, s_pc, info_cleared>>
    /\ UNCHANGED <<fnVars, imgVars, docVars, remVars>>

\* the loop is over: the results area is rendered from the session state
Render ==
    /\ s_pc = "loop" /\ f_idx > Len(pdf_files)
    /\ s_pc' = "rendered"
    /\ UNCHANGED <<results, last_params, cur_params, pdf_files, run, f_idx,
                   st_errors, info_cleared, visited>>
    /\ UNCHANGED <<fnVars, imgVars, docVars, remVars>>

NextSes == ChangeSettings \/ ChangeUpload \/ PressCompress \/ CompressFile \/ Render

SpecSes == InitSes /\ [][NextSes]_vars

-----------------------------------------------------------------------------
\* C10: at the point where results are rendered, every entry stored in the
\* cache was computed with the configuration that is current in that rerun.
C10_RenderedResultsAreCurrent ==
    s_pc = "rendered" =>
        \A id \in DOMAIN results : results[id].params = cur_params

\* results were stored, a setting was changed and the button pressed: the
\* rerun dropped the old results and stored one under the new settings
C10_Witness ==
    /\ s_pc = "rendered"
    /\ info_cleared
    /\ cur_params = [quality |-> 90, downscale |-> TRUE, max_side |-> 2048]
    /\ DOMAIN results = {<<"good.pdf", 100>>}
    /\ results[<<"good.pdf", 100>>].params = cur_params

-----------------------------------------------------------------------------
(* pages/(2) PDF Resizer.py, remote variant: the loop over the uploaded     *)
(* files.  A file is [name, remote]: remote is what the calls of the remote *)
(* task do for it ("ok": a compressed file is downloaded, "no_output": the  *)
(* output folder stays empty, "raise": a call of the task raises).          *)

MaxRemote == 3

RemoteFiles ==
    { [name |-> n, remote |-> x] :
        n \in {"a.pdf", "b.pdf"}, x \in {"ok", "no_output", "raise"} }

InitRem ==
    /\ r_files \in Seqs(RemoteFiles, MaxRemote)
    /\ r_idx = 1
    /\ r_pc = IF r_files = <<>> THEN "done" ELSE "loop"
    /\ compressed_paths = <<>>
    /\ r_visited = <<>>
    /\ IdleFn /\ IdleImg /\ IdleDoc /\ IdleSes

\* one iteration of "for idx, file in enumerate(files, start=1)"; nothing
\* catches an exception of the task, which ends the run of the script
RemoteCompressFile ==
    /\ r_pc = "loop" /\ r_idx <= Len(r_files)
    /\ LET file == r_files[r_idx]
       IN  /\ r_visited' = Append(r_visited, file.name)
           /\ IF file.remote = "raise"
              THEN r_pc' = "crashed" /\ UNCHANGED <<compressed_paths, r_idx>>
              ELSE /\ compressed_paths' =
                        IF file.remote = "ok"
                        THEN Append(compressed_paths, <<file.name, r_idx>>)
                        ELSE compressed_paths
                   /\ r_idx' = r_idx + 1
                   /\ UNCHANGED r_pc
    /\ UNCHANGED r_files
    /\ UNCHANGED <<fnVars, imgVars, docVars, sesVars>>

\* after the loop: the ZIP of all compressed files, when there is one
RemoteBundle ==
    /\ r_pc = "loop" /\ r_idx > Len(r_files)
    /\ r_pc' = "done"
    /\ UNCHANGED <<r_files, r_idx, compressed_paths, r_visited>>
    /\ UNCHANGED <<fnVars, imgVars, docVars, sesVars>>

NextRem == RemoteCompressFile \/ RemoteBundle

SpecRem == InitRem /\ [][NextRem]_vars

-----------------------------------------------------------------------------
NamesOf(files) == [i \in 1..Len(files) |-> files[i].name]

PdfFails(f) == f.size = 0 \/ f.fault # "none"

\* pypdf variant: after a run with the button pressed, the loop has reached
\* every file, the failing files and no others are reported, and every other
\* file has its result stored
PypdfLoopIsolatesFailures ==
    (s_pc = "rendered" /\ run /\ pdf_files # <<>>) =>
        /\ visited = NamesOf(pdf_files)
        /\ st_errors = {pdf_files[i].name : i \in {j \in 1..Len(pdf_files) : PdfFails(pdf_files[j])}}
        /\ \A i \in 1..Len(pdf_files) :
              ~PdfFails(pdf_files[i]) => FileId(pdf_files[i]) \in DOMAIN results

\* remote variant: when the run of the script is over, the loop has reached
\* every file
RemoteLoopIsolatesFailures ==
    r_pc \in {"done", "crashed"} => r_visited = NamesOf(r_files)

\* C3: in a batch of PDF files, the failure of one file (an empty file, an
\* unparseable document, a failing compression step) is caught and reported
\* for that file only and every later file is still processed: the loop never
\* ends early because of one file's failure.  Stated for both variants of the
\* page.
C3_BatchIsolatesFailures ==
    PypdfLoopIsolatesFailures /\ RemoteLoopIsolatesFailures

=============================================================================
